---- MODULE Spec2Model ----
(***************************************************************************)
(* hrpc: Manager.Handler converts an RPC style function into an            *)
(* http.Handler.  The model follows src/hrpc.go: the registration          *)
(* (classification of inputs and outputs by reflection) and the closure    *)
(* that serves each request.                                               *)
(***************************************************************************)
EXTENDS Integers, Sequences, FiniteSets, TLC

VARIABLES
    m,      \* the Manager: Decoder, Encoder, ErrorEncoder, Validate
    m0,     \* the Manager as it was when Handler(f) was called
    f,      \* the value handed to Manager.Handler
    reg,    \* outcome of Manager.Handler(f): "none", "ok" or "panic"
    h,      \* what the returned closure captured
    heap,   \* payload instances allocated by reflect.New, by address
    disp    \* one record per dispatch (call of the closure)

vars == <<m, m0, f, reg, h, heap, disp>>

\* ---------------------------------------------------------------- bounds
MaxIn == 3          \* most parameters of a handler function
MaxOut == 3         \* most return values of a handler function

\* ------------------------------------------------------- program constants
miContext == 1
miRequest == 2
miResponseWriter == 3
miAny == 4
miError == 5

strContext == "context.Context"
strRequest == "*http.Request"
strResponseWriter == "http.ResponseWriter"
strError == "error"

\* ------------------------------------------------------------------ types
\* The Go types a handler signature is drawn from: the three carriers, the
\* test's payload type by pointer and by value, and a slice type.
InTypes == {"Context", "Request", "ResponseWriter",
            "PtrRequestType", "RequestType", "SliceAny"}
OutTypes == {"error", "any"}

\* reflect.Type.String()
TypeString(t) ==
    CASE t = "Context" -> "context.Context"
      [] t = "Request" -> "*http.Request"
      [] t = "ResponseWriter" -> "http.ResponseWriter"
      [] t = "PtrRequestType" -> "*hrpc.requestType"
      [] t = "RequestType" -> "hrpc.requestType"
      [] t = "SliceAny" -> "[]interface {}"
      [] t = "any" -> "interface {}"
      [] t = "error" -> "error"
      [] OTHER -> t

\* reflect.Type.Kind()
Kind(t) ==
    CASE t \in {"Context", "ResponseWriter", "any", "error"} -> "Interface"
      [] t \in {"Request", "PtrRequestType"} -> "Ptr"
      [] t = "SliceAny" -> "Slice"
      [] OTHER -> "Struct"

\* reflect.Type.Elem() of a pointer type
Elem(t) ==
    CASE t = "PtrRequestType" -> "RequestType"
      [] t = "PtrSliceAny" -> "SliceAny"
      [] t = "Request" -> "http.Request"
      [] OTHER -> "nil"

\* reflect.PtrTo: the type of the pointer reflect.New(t) returns
PtrTo(t) ==
    CASE t = "RequestType" -> "PtrRequestType"
      [] t = "SliceAny" -> "PtrSliceAny"
      [] t = "http.Request" -> "Request"
      [] OTHER -> "PtrPtr"

\* Whether a *t has a method Valid() error, that is, whether a pointer to a
\* t satisfies Validatable.  requestType declares Valid on its pointer.
HasValid(t) == t = "RequestType"

\* reflect's assignability of a value of dynamic type vt to a parameter of
\* type pt: identical types, or an interface the dynamic type implements.
AssignableTo(vt, pt) ==
    \/ vt = pt
    \/ vt = "ctxImpl" /\ pt = "Context"
    \/ vt = "rwImpl" /\ pt = "ResponseWriter"

\* Sequences over S of length at most n
RECURSIVE SeqsUpTo(_, _)
SeqsUpTo(S, n) ==
    IF n = 0 THEN {<<>>}
    ELSE LET shorter == SeqsUpTo(S, n - 1)
         IN  shorter \cup {Append(s, x) : s \in {q \in shorter : Len(q) = n - 1}, x \in S}

\* The values a program may hand to Handler: a non-function (the test passes
\* the integer 1) or a function of some signature.  Only a function whose
\* last parameter is a slice can be variadic.
NotFunc == [kind |-> "Int", ins |-> <<>>, outs |-> <<>>, variadic |-> FALSE]
Funcs ==
    {[kind |-> "Func", ins |-> i, outs |-> o, variadic |-> v] :
        i \in SeqsUpTo(InTypes, MaxIn), o \in SeqsUpTo(OutTypes, MaxOut),
        v \in BOOLEAN}
Values == {NotFunc} \cup
    {g \in Funcs : g.variadic =>
        (Len(g.ins) > 0 /\ Kind(g.ins[Len(g.ins)]) = "Slice")}

\* ---------------------------------------------------------- registration
NoMap == [k \in {} |-> 0]

\* setOrPanic: m[k] = v unless k is bound already
setOrPanic_Overwrite(mp, k, v) ==
    [panic |-> FALSE, map |-> [x \in DOMAIN mp \cup {k} |->
                                  IF x = k THEN v ELSE mp[x]]]

setOrPanic(mp, k, v) ==
    IF k \in DOMAIN mp
    THEN [panic |-> TRUE, map |-> mp]
    ELSE [panic |-> FALSE, map |-> mp @@ (k :> v)]

\* The role of an input type (the switch on fi.String())
InIndex_RequestAsAny(fi) ==
    CASE TypeString(fi) = strContext -> miContext
      [] TypeString(fi) = strResponseWriter -> miResponseWriter
      [] OTHER -> miAny

InIndex(fi) ==
    CASE TypeString(fi) = strContext -> miContext
      [] TypeString(fi) = strRequest -> miRequest
      [] TypeString(fi) = strResponseWriter -> miResponseWriter
      [] OTHER -> miAny

\* Whether the loop over the inputs stops at parameter i without binding it
SkipIn(fi, i, numIn) == Kind(fi) = "Slice" /\ i = numIn - 1

\* The loop that builds mapIn, from parameter i (0-based) on
RECURSIVE BuildMapIn(_, _, _, _)
BuildMapIn(ft, i, numIn, mapIn) ==
    IF i >= numIn
    THEN [panic |-> FALSE, numIn |-> numIn, map |-> mapIn]
    ELSE LET fi == ft.ins[i + 1]
         IN  IF SkipIn(fi, i, numIn)
             THEN [panic |-> FALSE, numIn |-> numIn - 1, map |-> mapIn]
             ELSE LET s == setOrPanic(mapIn, InIndex(fi), i)
                  IN  IF s.panic
                      THEN [panic |-> TRUE, numIn |-> numIn, map |-> mapIn]
                      ELSE BuildMapIn(ft, i + 1, numIn, s.map)

\* The role of an output type (the switch on ft.Out(i).String())
OutIndex(fo) == IF TypeString(fo) = strError THEN miError ELSE miAny

\* The loop that builds mapOut, from return value i (0-based) on
RECURSIVE BuildMapOut(_, _, _)
BuildMapOut(ft, i, mapOut) ==
    IF i >= Len(ft.outs)
    THEN [panic |-> FALSE, map |-> mapOut]
    ELSE LET s == setOrPanic(mapOut, OutIndex(ft.outs[i + 1]), i)
         IN  IF s.panic
             THEN [panic |-> TRUE, map |-> mapOut]
             ELSE BuildMapOut(ft, i + 1, s.map)

\* infType and infPtr of the payload parameter
InfType(ft, mapIn) ==
    IF miAny \in DOMAIN mapIn
    THEN LET t == ft.ins[mapIn[miAny] + 1]
         IN  IF Kind(t) = "Ptr" THEN Elem(t) ELSE t
    ELSE "nil"

InfPtr(ft, mapIn) ==
    /\ miAny \in DOMAIN mapIn
    /\ Kind(ft.ins[mapIn[miAny] + 1]) = "Ptr"

\* Manager.decoder, Manager.encoder, Manager.errorEncoder: the collaborator
\* that was set, or a no-op
decoder(mgr) == IF mgr.Decoder = "nil" THEN "noop" ELSE mgr.Decoder
encoder(mgr) == IF mgr.Encoder = "nil" THEN "noop" ELSE mgr.Encoder
errorEncoder(mgr) == IF mgr.ErrorEncoder = "nil" THEN "noop" ELSE mgr.ErrorEncoder

NoHandler ==
    [numIn |-> 0, mapIn |-> NoMap, mapOut |-> NoMap, infType |-> "nil",
     infPtr |-> FALSE, encoder |-> "noop", decoder |-> "noop",
     errorEncoder |-> "noop"]

\* What Manager.Handler(g) does on manager mgr: a panic, or the closure
Register(mgr, g) ==
    IF g.kind # "Func"
    THEN [panic |-> "hrpc: f must be a function", h |-> NoHandler]
    ELSE LET in == BuildMapIn(g, 0, Len(g.ins), NoMap)
             out == BuildMapOut(g, 0, NoMap)
         IN  IF in.panic \/ out.panic
             THEN [panic |-> "hrpc: duplicate input type", h |-> NoHandler]
             ELSE [panic |-> "",
                   h |-> [numIn |-> in.numIn, mapIn |-> in.map,
                          mapOut |-> out.map,
                          infType |-> InfType(g, in.map),
                          infPtr |-> InfPtr(g, in.map),
                          encoder |-> encoder(mgr),
                          decoder |-> decoder(mgr),
                          errorEncoder |-> errorEncoder(mgr)]]

\* -------------------------------------------------------------- dispatch
\* reflect.Values.  k: "zero" (the invalid zero Value), "obj" (ValueOf an
\* object), "ptr" (the pointer reflect.New returned) or "elem" (what that
\* pointer points to); t: the dynamic type; c: the address of the instance.
ZeroValue == [k |-> "zero", t |-> "", c |-> 0]
ValueOfContext == [k |-> "obj", t |-> "ctxImpl", c |-> 0]
ValueOfRequest == [k |-> "obj", t |-> "Request", c |-> 0]
ValueOfWriter == [k |-> "obj", t |-> "rwImpl", c |-> 0]
New(t, addr) == [k |-> "ptr", t |-> PtrTo(t), c |-> addr]
ElemOf(v) == [k |-> "elem", t |-> Elem(v.t), c |-> v.c]

\* Request bodies, as the tests send them
Bodies == {"{data: 1}", "{data: -1}", "invalid"}

\* jsonDecoder of the tests: the error, or the Data it stores in dst
JsonError(body) == body = "invalid"
JsonData(body) == IF body = "{data: -1}" THEN 0 - 1 ELSE 1

\* The Decoder collaborator dec on a request with this body and a zero valued
\* destination: the error it returns and the Data it leaves in dst
Decode(dec, body) ==
    IF dec = "noop" THEN [err |-> "nil", data |-> 0]
    ELSE IF JsonError(body) THEN [err |-> "decode error", data |-> 0]
    ELSE [err |-> "nil", data |-> JsonData(body)]

\* requestType.Valid
Valid(data) == IF data < 0 THEN "invalid data" ELSE "nil"

\* vIn with slot i (0-based) set to v
SetIn(vIn, i, v) == [vIn EXCEPT ![i + 1] = v]

\* make([]reflect.Value, numIn) and the injection of the context
NewIn(hd) ==
    LET vIn == [i \in 1..hd.numIn |-> ZeroValue]
    IN  IF miContext \in DOMAIN hd.mapIn
        THEN SetIn(vIn, hd.mapIn[miContext], ValueOfContext)
        ELSE vIn

\* The value bound to the payload slot
InArg(hd, rfReq) == IF hd.infPtr THEN rfReq ELSE ElemOf(rfReq)

\* The injection of the request and of the response writer
BindCarriers(hd, vIn) ==
    LET a == IF miRequest \in DOMAIN hd.mapIn
             THEN SetIn(vIn, hd.mapIn[miRequest], ValueOfRequest)
             ELSE vIn
    IN  IF miResponseWriter \in DOMAIN hd.mapIn
        THEN SetIn(a, hd.mapIn[miResponseWriter], ValueOfWriter)
        ELSE a

\* reflect.Value.Call: whether the call of a function of type ft with the
\* arguments vIn panics before the function runs
CallPanics(ft, vIn) ==
    LET n == Len(ft.ins)
        fixed == IF ft.variadic THEN n - 1 ELSE n
    IN  \/ ~ft.variadic /\ Len(vIn) # n
        \/ ft.variadic /\ Len(vIn) < n - 1
        \/ \E i \in 1..fixed :
              /\ i <= Len(vIn)
              /\ \/ vIn[i].k = "zero"
                 \/ ~AssignableTo(vIn[i].t, ft.ins[i])

\* What a handler function may return: per return value, an error or nil
\* where the type is error, a result elsewhere
Results == {"res1", "res2"}
Errors == {"nil", "some error"}
Returns(ft) ==
    {vOut \in [1..Len(ft.outs) -> Results \cup Errors] :
        \A i \in 1..Len(ft.outs) :
            IF ft.outs[i] = "error" THEN vOut[i] \in Errors
            ELSE vOut[i] \in Results}

Event(op, arg) == [op |-> op, arg |-> arg]

\* The call of the decoder and its error path: the events, whether the
\* closure returns here, and the Data left in the payload instance
DecodePhase_NoReturn(hd, body) ==
    LET dr == Decode(hd.decoder, body)
    IN  [events |-> <<Event("Decode", dr.err)>> \o
                    (IF dr.err # "nil" THEN <<Event("EncodeError", dr.err)>>
                     ELSE <<>>),
         stop |-> FALSE,
         data |-> dr.data]

DecodePhase(hd, body) ==
    LET dr == Decode(hd.decoder, body)
    IN  [events |-> <<Event("Decode", dr.err)>> \o
                    (IF dr.err # "nil" THEN <<Event("EncodeError", dr.err)>>
                     ELSE <<>>),
         stop |-> dr.err # "nil",
         data |-> dr.data]

\* The validation of the decoded payload and its error path
ValidatePhase_NoReturn(hd, validate, data) ==
    IF validate /\ HasValid(hd.infType)
    THEN [events |-> <<Event("Valid", Valid(data))>> \o
                     (IF Valid(data) # "nil"
                      THEN <<Event("EncodeError", Valid(data))>> ELSE <<>>),
          stop |-> FALSE]
    ELSE [events |-> <<>>, stop |-> FALSE]

ValidatePhase(hd, validate, data) ==
    IF validate /\ HasValid(hd.infType)
    THEN [events |-> <<Event("Valid", Valid(data))>> \o
                     (IF Valid(data) # "nil"
                      THEN <<Event("EncodeError", Valid(data))>> ELSE <<>>),
          stop |-> Valid(data) # "nil"]
    ELSE [events |-> <<>>, stop |-> FALSE]

\* The calls the closure makes after fv.Call returned vOut
Route_NoReturn(hd, vOut) ==
    (IF miError \in DOMAIN hd.mapOut /\ vOut[hd.mapOut[miError] + 1] # "nil"
     THEN <<Event("EncodeError", vOut[hd.mapOut[miError] + 1])>> ELSE <<>>)
    \o
    (IF miAny \in DOMAIN hd.mapOut
     THEN <<Event("EncodeSuccess", vOut[hd.mapOut[miAny] + 1])>> ELSE <<>>)

Route_ResponseFirst(hd, vOut) ==
    IF miAny \in DOMAIN hd.mapOut
    THEN <<Event("EncodeSuccess", vOut[hd.mapOut[miAny] + 1])>>
    ELSE IF miError \in DOMAIN hd.mapOut /\ vOut[hd.mapOut[miError] + 1] # "nil"
    THEN <<Event("EncodeError", vOut[hd.mapOut[miError] + 1])>>
    ELSE <<>>

Route_FirstOut(hd, vOut) ==
    IF miError \in DOMAIN hd.mapOut /\ vOut[hd.mapOut[miError] + 1] # "nil"
    THEN <<Event("EncodeError", vOut[hd.mapOut[miError] + 1])>>
    ELSE IF miAny \in DOMAIN hd.mapOut
    THEN <<Event("EncodeSuccess", vOut[1])>>
    ELSE <<>>

Route(hd, vOut) ==
    IF miError \in DOMAIN hd.mapOut /\ vOut[hd.mapOut[miError] + 1] # "nil"
    THEN <<Event("EncodeError", vOut[hd.mapOut[miError] + 1])>>
    ELSE IF miAny \in DOMAIN hd.mapOut
    THEN <<Event("EncodeSuccess", vOut[hd.mapOut[miAny] + 1])>>
    ELSE <<>>

\* What the response writer received: the collaborators that wrote to it, in
\* order.  The no-op encoders write nothing.
Written(hd, events) ==
    LET by(e) == IF e.op = "EncodeError" THEN hd.errorEncoder
                 ELSE IF e.op = "EncodeSuccess" THEN hd.encoder
                 ELSE "noop"
        s == SelectSeq(events, LAMBDA e : by(e) # "noop")
    IN  [i \in 1..Len(s) |-> by(s[i])]

\* The handler function and its payload argument.  A pointer argument is the
\* address of an instance; a value argument is a copy that fv.Call made of
\* the instance.  Seen: the Data the function finds in its argument; Store:
\* the instances after the function assigned x to the Data of its argument.
PayloadArgs(vIn) == {i \in DOMAIN vIn : vIn[i].k \in {"ptr", "elem"}}
Seen(vIn, hp) ==
    IF PayloadArgs(vIn) = {} THEN <<>>
    ELSE <<hp[vIn[CHOOSE i \in PayloadArgs(vIn) : TRUE].c]>>
Store_ThroughValue(vIn, hp, x) ==
    [a \in DOMAIN hp |->
        IF \E i \in DOMAIN vIn : vIn[i].k \in {"ptr", "elem"} /\ vIn[i].c = a
        THEN x ELSE hp[a]]

Store(vIn, hp, x) ==
    [a \in DOMAIN hp |->
        IF \E i \in DOMAIN vIn : vIn[i].k = "ptr" /\ vIn[i].c = a
        THEN x ELSE hp[a]]
Stored == 7

\* The address of the instance reflect.New allocates
NewAddr_Shared(hp) == 1

NewAddr(hp) == Len(hp) + 1

Idle ==
    [pc |-> "idle", body |-> "", vIn |-> <<>>, rfReq |-> ZeroValue,
     vOut |-> <<>>, trace |-> <<>>, seen |-> <<>>, stored |-> FALSE,
     w |-> <<>>]

\* The managers of the tests: Manager{} of TestDefault and TestInvalidF and
\* the manager of TestHandler with its three collaborators, each with
\* Validate set and not set.
Managers ==
    {[Decoder |-> "nil", Encoder |-> "nil", ErrorEncoder |-> "nil",
      Validate |-> v] : v \in BOOLEAN}
    \cup
    {[Decoder |-> "jsonDecoder", Encoder |-> "Encoder",
      ErrorEncoder |-> "ErrorEncoder", Validate |-> v] : v \in BOOLEAN}

InitWith(reqs) ==
    /\ m \in Managers
    /\ m0 = m
    /\ f = NotFunc
    /\ reg = "none"
    /\ h = NoHandler
    /\ heap = <<>>
    /\ disp = [d \in reqs |-> Idle]

Init == InitWith({"r1"})

\* Manager.Handler(g)
Handler(g) ==
    /\ reg = "none"
    /\ f' = g
    /\ LET r == Register(m, g)
       IN  /\ reg' = IF r.panic = "" THEN "ok" ELSE "panic"
           /\ h' = r.h
    /\ m0' = m
    /\ UNCHANGED <<m, heap, disp>>

\* The closure up to the call of the decoder: the argument list, the context
\* and the new payload instance
ServeHTTP(d, body) ==
    /\ reg = "ok"
    /\ disp[d].pc = "idle"
    /\ IF miAny \in DOMAIN h.mapIn
       THEN /\ heap' = [a \in DOMAIN heap \cup {NewAddr(heap)} |->
                          IF a = NewAddr(heap) THEN 0 ELSE heap[a]]
            /\ disp' = [disp EXCEPT ![d].body = body,
                                     ![d].vIn = NewIn(h),
                                     ![d].rfReq = New(h.infType, NewAddr(heap)),
                                     ![d].pc = "decode"]
       ELSE /\ heap' = heap
            /\ disp' = [disp EXCEPT ![d].body = body,
                                     ![d].vIn = NewIn(h),
                                     ![d].pc = "call"]
    /\ UNCHANGED <<m, m0, f, reg, h>>

\* The decoder returns: its error path, the validation (m.Validate is read
\* here) and the binding of the payload slot
AfterDecode(d) ==
    /\ disp[d].pc = "decode"
    /\ LET dp == DecodePhase(h, disp[d].body)
           vp == ValidatePhase(h, m.Validate, dp.data)
       IN  IF dp.stop
           THEN /\ heap' = heap
                /\ disp' = [disp EXCEPT ![d].trace = @ \o dp.events,
                                         ![d].w = @ \o Written(h, dp.events),
                                         ![d].pc = "done"]
           ELSE /\ heap' = [heap EXCEPT ![disp[d].rfReq.c] = dp.data]
                /\ IF vp.stop
                   THEN disp' = [disp EXCEPT
                            ![d].trace = @ \o dp.events \o vp.events,
                            ![d].w = @ \o Written(h, dp.events \o vp.events),
                            ![d].pc = "done"]
                   ELSE disp' = [disp EXCEPT
                            ![d].trace = @ \o dp.events \o vp.events,
                            ![d].w = @ \o Written(h, dp.events \o vp.events),
                            ![d].vIn = SetIn(@, h.mapIn[miAny],
                                             InArg(h, disp[d].rfReq)),
                            ![d].pc = "call"]
    /\ UNCHANGED <<m, m0, f, reg, h>>

\* The rest of the closure: the carriers, fv.Call and the routing of what the
\* function returned.  A panic of reflect's Call ends the dispatch.
CallHandler(d) ==
    /\ disp[d].pc = "call"
    /\ LET vIn == BindCarriers(h, disp[d].vIn)
       IN  IF CallPanics(f, vIn)
           THEN /\ disp' = [disp EXCEPT ![d].vIn = vIn, ![d].pc = "panic"]
                /\ heap' = heap
           ELSE \E vOut \in Returns(f), st \in BOOLEAN :
                  /\ st => PayloadArgs(vIn) # {}
                  /\ heap' = IF st THEN Store(vIn, heap, Stored) ELSE heap
                  /\ disp' = [disp EXCEPT
                         ![d].vIn = vIn,
                         ![d].vOut = vOut,
                         ![d].seen = Seen(vIn, heap),
                         ![d].stored = st,
                         ![d].trace = @ \o <<Event("Call", "f")>> \o Route(h, vOut),
                         ![d].w = @ \o Written(h, Route(h, vOut)),
                         ![d].pc = "done"]
    /\ UNCHANGED <<m, m0, f, reg, h>>

RegisterStep == reg = "none" /\ \E g \in Values : Handler(g)
RequestStep == \E d \in DOMAIN disp, body \in Bodies : ServeHTTP(d, body)
DecodedStep == \E d \in DOMAIN disp : AfterDecode(d)
CallStep == \E d \in DOMAIN disp : CallHandler(d)

Next == RegisterStep \/ RequestStep \/ DecodedStep \/ CallStep

Spec == Init /\ [][Next]_vars

\* Two requests served concurrently by the dispatcher of one of the handlers
\* of TestHandler: net/http runs ServeHTTP of every request on a goroutine
\* of its own, so the steps of the two dispatches interleave.
TestHandlers ==
    {[kind |-> "Func", ins |-> <<"Context", "PtrRequestType">>,
      outs |-> <<"any", "error">>, variadic |-> FALSE],
     [kind |-> "Func", ins |-> <<"Request", "PtrRequestType">>,
      outs |-> <<"any", "error">>, variadic |-> FALSE],
     [kind |-> "Func", ins |-> <<"ResponseWriter", "Request">>,
      outs |-> <<>>, variadic |-> FALSE],
     [kind |-> "Func", ins |-> <<"Context", "PtrRequestType", "SliceAny">>,
      outs |-> <<"any", "error">>, variadic |-> TRUE],
     [kind |-> "Func", ins |-> <<"RequestType">>,
      outs |-> <<"any", "error">>, variadic |-> FALSE]}

InitConc == InitWith({"r1", "r2"})
RegisterTestStep == reg = "none" /\ \E g \in TestHandlers : Handler(g)
NextConc == RegisterTestStep \/ RequestStep \/ DecodedStep \/ CallStep
SpecConc == InitConc /\ [][NextConc]_vars

\* The fields of the manager are exported: the program may assign them after
\* Handler returned.  Reconfigure is such an assignment made while no
\* dispatch is running, so the requests after it are later requests.
Reconfigure(mgr) ==
    /\ reg = "ok"
    /\ \A d \in DOMAIN disp : disp[d].pc \in {"idle", "done", "panic"}
    /\ mgr # m
    /\ m' = mgr
    /\ UNCHANGED <<m0, f, reg, h, heap, disp>>

ReconfigureStep == \E mgr \in Managers : Reconfigure(mgr)
NextReconf ==
    RegisterTestStep \/ RequestStep \/ DecodedStep \/ CallStep
        \/ ReconfigureStep
SpecReconf == Init /\ [][NextReconf]_vars

\* ---------------------------------------------------------------- claims
\* What the claims speak of, read off the signature and the calls made.
NumOf(d, op) ==
    Cardinality({i \in DOMAIN disp[d].trace : disp[d].trace[i].op = op})
ArgsOf(d, op) ==
    {disp[d].trace[i].arg : i \in {j \in DOMAIN disp[d].trace :
                                        disp[d].trace[j].op = op}}
Finished(d) == disp[d].pc \in {"done", "panic"}
Returned(d) == NumOf(d, "Call") > 0

PayloadOuts(g) == {i \in DOMAIN g.outs : g.outs[i] # "error"}
ErrorOuts(g) == {i \in DOMAIN g.outs : g.outs[i] = "error"}
\* The error the handler returned, "nil" when it has no error output
ReturnedError(d) ==
    IF ErrorOuts(f) = {} THEN "nil"
    ELSE disp[d].vOut[CHOOSE i \in ErrorOuts(f) : TRUE]

\* The role the specification gives parameter i (1-based) of g: a final
\* variadic parameter has none, a carrier type its carrier role, any other
\* type is a payload-in candidate.
RoleOf(g, i) ==
    IF i = Len(g.ins) /\ g.variadic THEN "none"
    ELSE IF g.ins[i] \in {"Context", "Request", "ResponseWriter"} THEN g.ins[i]
    ELSE "PayloadIn"
TwoSameRole(g) ==
    \E i, j \in DOMAIN g.ins :
        i # j /\ RoleOf(g, i) # "none" /\ RoleOf(g, i) = RoleOf(g, j)

\* C1: a dispatch of a registered handler with a payload output invokes
\* exactly one of EncodeSuccess and EncodeError, once.
C1_ExactlyOneEncoder ==
    \A d \in DOMAIN disp :
        (reg = "ok" /\ PayloadOuts(f) # {} /\ Finished(d)) =>
            NumOf(d, "EncodeSuccess") + NumOf(d, "EncodeError") = 1

\* C2: in a dispatch EncodeError is invoked at most once, and EncodeSuccess
\* and EncodeError are never both invoked.
C2_AtMostOneEncoder ==
    \A d \in DOMAIN disp :
        /\ NumOf(d, "EncodeError") <= 1
        /\ ~(NumOf(d, "EncodeSuccess") > 0 /\ NumOf(d, "EncodeError") > 0)
C2_Witness ==
    \E d \in DOMAIN disp :
        /\ PayloadOuts(f) # {} /\ ErrorOuts(f) # {}
        /\ Returned(d) /\ ReturnedError(d) # "nil"
        /\ NumOf(d, "EncodeError") = 1

\* No decode error, no validation error and no error returned by the handler
NoFailure(d) ==
    /\ \A e \in ArgsOf(d, "Decode") \cup ArgsOf(d, "Valid") : e = "nil"
    /\ \A i \in DOMAIN disp[d].vOut :
           f.outs[i] = "error" => disp[d].vOut[i] = "nil"

\* C3: with no payload output and no failure (no decode error, no validation
\* error, no handler error) the dispatch invokes the handler and invokes
\* neither encoder.
C3_HandlerThenNeither ==
    \A d \in DOMAIN disp :
        (reg = "ok" /\ PayloadOuts(f) = {} /\ Finished(d) /\ NoFailure(d)) =>
            /\ NumOf(d, "Call") = 1
            /\ NumOf(d, "EncodeSuccess") = 0
            /\ NumOf(d, "EncodeError") = 0

\* C4: when Decode returns an error, EncodeError is invoked with that error
\* and neither the validate method, the handler nor EncodeSuccess is.
C4_DecodeError ==
    \A d \in DOMAIN disp :
        \A e \in ArgsOf(d, "Decode") :
            e # "nil" =>
                /\ NumOf(d, "EncodeError") = 1
                /\ ArgsOf(d, "EncodeError") = {e}
                /\ NumOf(d, "Valid") = 0
                /\ NumOf(d, "Call") = 0
                /\ NumOf(d, "EncodeSuccess") = 0
                /\ disp[d].pc = "done"
C4_Witness ==
    \E d \in DOMAIN disp :
        /\ "decode error" \in ArgsOf(d, "Decode")
        /\ m.Validate
        /\ HasValid(h.infType)
        /\ PayloadOuts(f) # {}

\* C5: with validation enabled, when Decode succeeded and the validate method
\* of the payload returns an error, EncodeError is invoked with that error
\* and neither the handler nor EncodeSuccess is.
C5_ValidationError ==
    \A d \in DOMAIN disp :
        \A e \in ArgsOf(d, "Valid") :
            e # "nil" =>
                /\ ArgsOf(d, "Decode") = {"nil"}
                /\ NumOf(d, "EncodeError") = 1
                /\ ArgsOf(d, "EncodeError") = {e}
                /\ NumOf(d, "Call") = 0
                /\ NumOf(d, "EncodeSuccess") = 0
                /\ disp[d].pc = "done"
C5_Witness ==
    \E d \in DOMAIN disp :
        /\ m.Validate
        /\ disp[d].body = "{data: -1}"
        /\ "invalid data" \in ArgsOf(d, "Valid")
        /\ PayloadOuts(f) # {}

\* C6: when the handler returns a non-nil error in its error output,
\* EncodeError is invoked with that error and EncodeSuccess is not, also
\* when the handler has a payload output.
C6_HandlerError ==
    \A d \in DOMAIN disp :
        (Returned(d) /\ ErrorOuts(f) # {} /\ ReturnedError(d) # "nil") =>
            /\ NumOf(d, "EncodeError") = 1
            /\ ArgsOf(d, "EncodeError") = {ReturnedError(d)}
            /\ NumOf(d, "EncodeSuccess") = 0
C6_Witness ==
    \E d \in DOMAIN disp :
        /\ Returned(d)
        /\ f.outs = <<"any", "error">>
        /\ disp[d].vOut = <<"res1", "some error">>

\* C7: when the handler was invoked (Decode succeeded, validation passed)
\* and returned a nil error or has no error output, EncodeSuccess is invoked
\* with the value it returned in its payload output and EncodeError is not.
C7_Success ==
    \A d \in DOMAIN disp :
        (Returned(d) /\ PayloadOuts(f) # {} /\ ReturnedError(d) = "nil") =>
            /\ NumOf(d, "EncodeSuccess") = 1
            /\ \A i \in PayloadOuts(f) :
                   ArgsOf(d, "EncodeSuccess") = {disp[d].vOut[i]}
            /\ NumOf(d, "EncodeError") = 0
C7_Witness ==
    \E d \in DOMAIN disp :
        /\ Returned(d)
        /\ f.outs = <<"error", "any">>
        /\ disp[d].vOut = <<"nil", "res2">>
        /\ ArgsOf(d, "Decode") = {"nil"}
        /\ ArgsOf(d, "Valid") = {"nil"}

\* C8: the registration of a function with two parameters of the same input
\* role raises a configuration error, whatever their positions.
C8_DuplicateInput ==
    (reg # "none" /\ f.kind = "Func" /\ TwoSameRole(f)) => reg = "panic"

\* C9: the registration of a function with two return values that are not
\* of the error type raises a configuration error.
C9_DuplicateOutput ==
    (reg # "none" /\ f.kind = "Func" /\ Cardinality(PayloadOuts(f)) >= 2)
        => reg = "panic"
C9_Witness ==
    /\ reg = "panic"
    /\ f.ins = <<"Context", "PtrRequestType">>
    /\ f.outs = <<"any", "error", "any">>

\* C10: once Handler(f) returned a dispatcher, no dispatch fails because of
\* the signature of f (argument count, unbound argument, argument type).
C10_NoDispatchPanic ==
    reg = "ok" => \A d \in DOMAIN disp : disp[d].pc # "panic"

\* The function g without its last parameter
Strip(g) ==
    [g EXCEPT !.ins = SubSeq(g.ins, 1, Len(g.ins) - 1), !.variadic = FALSE]

\* C11: a handler whose final parameter is variadic is invoked with exactly
\* the parameters before it, and its dispatcher is the dispatcher of the same
\* function without that parameter: the same binding plan and the same
\* outcome of the call.
C11_VariadicIgnored ==
    (reg = "ok" /\ f.variadic) =>
        /\ \A d \in DOMAIN disp :
               Returned(d) => Len(disp[d].vIn) = Len(f.ins) - 1
        /\ Register(m0, Strip(f)).panic = ""
        /\ Register(m0, Strip(f)).h = h
        /\ \A d \in DOMAIN disp :
               disp[d].pc = "call" =>
                   CallPanics(Strip(f), BindCarriers(h, disp[d].vIn))
                       = CallPanics(f, BindCarriers(h, disp[d].vIn))

\* The payload argument of dispatch d and the Data its decoder left
PayloadArg(d) == disp[d].vIn[h.mapIn[miAny] + 1]
Decoded(d) == Decode(h.decoder, disp[d].body).data

\* C12: a handler that declares its payload as a pointer receives the very
\* pointer Decode wrote into, so what it stores is in that instance; one that
\* declares it by value receives a copy, so what it stores is not in the
\* instance Decode wrote into; both find the decoded content.
C12_PayloadPassing ==
    \A d \in DOMAIN disp :
        (Returned(d) /\ miAny \in DOMAIN h.mapIn) =>
            /\ disp[d].seen = <<Decoded(d)>>
            /\ h.infPtr =>
                   /\ PayloadArg(d) = disp[d].rfReq
                   /\ Kind(f.ins[h.mapIn[miAny] + 1]) = "Ptr"
                   /\ heap[disp[d].rfReq.c] =
                          IF disp[d].stored THEN Stored ELSE Decoded(d)
            /\ ~h.infPtr =>
                   /\ PayloadArg(d).k = "elem"
                   /\ PayloadArg(d).t = f.ins[h.mapIn[miAny] + 1]
                   /\ heap[disp[d].rfReq.c] = Decoded(d)
C12_Witness ==
    \E d \in DOMAIN disp :
        /\ Returned(d)
        /\ f.ins = <<"RequestType">>
        /\ disp[d].stored
        /\ disp[d].seen = <<1>>
        /\ heap[disp[d].rfReq.c] = 1
C12_WitnessPtr ==
    \E d \in DOMAIN disp :
        /\ Returned(d)
        /\ f.ins = <<"PtrRequestType">>
        /\ disp[d].stored
        /\ disp[d].seen = <<1>>
        /\ heap[disp[d].rfReq.c] = Stored

\* Dispatch d allocated a payload instance
HasPayload(d) == miAny \in DOMAIN h.mapIn /\ disp[d].pc # "idle"

\* C13: concurrent dispatches of one dispatcher each have a payload instance
\* and an argument list of their own: the payload a handler receives is the
\* one decoded from the request of its own dispatch, and what one dispatch
\* stores in its payload is never in the payload of another.
C13_Isolation ==
    \A d \in DOMAIN disp :
        /\ \A e \in DOMAIN disp \ {d} :
               (HasPayload(d) /\ HasPayload(e)) =>
                   disp[d].rfReq.c # disp[e].rfReq.c
        /\ (HasPayload(d) /\ disp[d].pc = "call") =>
               /\ PayloadArg(d).c = disp[d].rfReq.c
               /\ heap[disp[d].rfReq.c] = Decoded(d)
        /\ (HasPayload(d) /\ Returned(d)) =>
               /\ PayloadArg(d).c = disp[d].rfReq.c
               /\ disp[d].seen = <<Decoded(d)>>
               /\ heap[disp[d].rfReq.c] =
                      IF disp[d].stored /\ h.infPtr THEN Stored
                      ELSE Decoded(d)
C13_Witness ==
    /\ Returned("r1") /\ Returned("r2")
    /\ h.infPtr
    /\ disp["r1"].body = "{data: 1}" /\ disp["r2"].body = "{data: -1}"
    /\ disp["r1"].seen = <<1>> /\ disp["r2"].seen = <<0 - 1>>
    /\ disp["r1"].stored /\ ~disp["r2"].stored
    /\ heap[disp["r2"].rfReq.c] = 0 - 1

\* Manager{}: Decoder, Encoder and ErrorEncoder unset
Unset(mgr) ==
    mgr.Decoder = "nil" /\ mgr.Encoder = "nil" /\ mgr.ErrorEncoder = "nil"

\* C14: with Decoder, Encoder and ErrorEncoder all unset the registration
\* fails for no function that registers with them set, and every dispatch
\* completes without failure: Decode reports no error and leaves the payload
\* zero, the handler is invoked (with the zero payload) and nothing is
\* written, whether the handler returns an error or not.
C14_Defaults ==
    Unset(m) =>
        /\ reg = "panic" =>
               \A mgr \in Managers : Register(mgr, f).panic # ""
        /\ reg = "ok" =>
               \A d \in DOMAIN disp :
                   /\ \A e \in ArgsOf(d, "Decode") : e = "nil"
                   /\ Finished(d) =>
                          /\ disp[d].pc = "done"
                          /\ NumOf(d, "Call") = 1
                          /\ miAny \in DOMAIN h.mapIn =>
                                 /\ disp[d].seen = <<0>>
                                 /\ NumOf(d, "Decode") = 1
                          /\ disp[d].w = <<>>

\* C15: the validate method is invoked only with validation enabled; with
\* validation disabled a decoded payload that would fail validation is passed
\* to the handler, which is invoked.
C15_ValidateOnlyWhenEnabled ==
    \A d \in DOMAIN disp :
        /\ NumOf(d, "Valid") > 0 => m.Validate
        /\ (/\ reg = "ok" /\ ~m.Validate /\ Finished(d)
            /\ HasPayload(d) /\ HasValid(h.infType)
            /\ ArgsOf(d, "Decode") = {"nil"}
            /\ Valid(Decoded(d)) # "nil") =>
               /\ NumOf(d, "Call") = 1
               /\ disp[d].seen = <<Decoded(d)>>

\* The parameters (1-based) that have a role
Classified(g) == {i \in DOMAIN g.ins : RoleOf(g, i) # "none"}
\* The parameters (1-based) the binding plan binds
Planned(hd) == {hd.mapIn[k] + 1 : k \in DOMAIN hd.mapIn}

\* C16: only a final variadic parameter is left out of the binding plan and
\* of the effective arity; every other parameter, a final slice that is not
\* variadic included, is in the plan, is counted and carries a value when
\* the handler is called.
C16_OnlyVariadicSkipped ==
    reg = "ok" =>
        /\ h.numIn = Cardinality(Classified(f))
        /\ Planned(h) = Classified(f)
        /\ \A d \in DOMAIN disp :
               (Returned(d) \/ disp[d].pc = "panic") =>
                   /\ Len(disp[d].vIn) = Cardinality(Classified(f))
                   /\ \A i \in Classified(f) :
                          i <= Len(disp[d].vIn) /\ disp[d].vIn[i].k # "zero"

\* The place of a call in the protocol of a dispatch
Rank(op) ==
    CASE op = "Decode" -> 1
      [] op = "Valid" -> 2
      [] op = "Call" -> 3
      [] OTHER -> 4
\* The step at position i of the calls t failed: Decode or the validate
\* method returned an error, or the handler function did
FailedAt(d, t, i) ==
    \/ t[i].op \in {"Decode", "Valid"} /\ t[i].arg # "nil"
    \/ t[i].op = "Call" /\ ReturnedError(d) # "nil"

\* C17: the calls of a dispatch are in the order Decode, validate method,
\* handler function, encoder, each at most once; after a step that failed
\* the only call is the EncodeError of that failure.
C17_StrictOrder ==
    \A d \in DOMAIN disp :
        LET t == disp[d].trace
        IN  /\ \A i, j \in DOMAIN t : i < j => Rank(t[i].op) < Rank(t[j].op)
            /\ \A i \in DOMAIN t :
                   FailedAt(d, t, i) =>
                       \A j \in DOMAIN t :
                           j > i => /\ j = i + 1
                                    /\ t[j].op = "EncodeError"
                                    /\ j = Len(t)
            /\ \A i \in DOMAIN t :
                   t[i].op = "Valid" =>
                       i > 1 /\ t[i - 1] = Event("Decode", "nil")
            /\ \A i \in DOMAIN t :
                   (t[i].op = "Call" /\ miAny \in DOMAIN h.mapIn) =>
                       i > 1 /\ t[i - 1] \in {Event("Decode", "nil"),
                                               Event("Valid", "nil")}
            /\ \A i \in DOMAIN t :
                   Rank(t[i].op) = 4 => i > 1 /\ (FailedAt(d, t, i - 1)
                                                  \/ t[i - 1].op = "Call")
C17_Witness ==
    \E d \in DOMAIN disp :
        /\ Len(disp[d].trace) = 4
        /\ disp[d].trace[1].op = "Decode"
        /\ disp[d].trace[2].op = "Valid"
        /\ disp[d].trace[3].op = "Call"
        /\ disp[d].trace[4] = Event("EncodeError", "some error")

\* g has a payload-in parameter
HasPayloadIn(g) == \E i \in DOMAIN g.ins : RoleOf(g, i) = "PayloadIn"

\* C18: a dispatch of a handler without payload-in parameter invokes neither
\* Decode nor a validate method and allocates no payload instance; the raw
\* request is handed to the handler as it came, and EncodeError is only
\* invoked with the error the handler returned.
C18_NoPayloadNoDecode ==
    (reg = "ok" /\ ~HasPayloadIn(f)) =>
        \A d \in DOMAIN disp :
            /\ NumOf(d, "Decode") = 0
            /\ NumOf(d, "Valid") = 0
            /\ heap = <<>>
            /\ NumOf(d, "EncodeError") > 0 =>
                   /\ Returned(d)
                   /\ ReturnedError(d) # "nil"
                   /\ ArgsOf(d, "EncodeError") = {ReturnedError(d)}
            /\ Returned(d) =>
                   \A i \in DOMAIN f.ins :
                       f.ins[i] = "Request" => disp[d].vIn[i] = ValueOfRequest
C18_Witness ==
    \E d \in DOMAIN disp :
        /\ f.ins = <<"Request">>
        /\ f.outs = <<"error">>
        /\ m.Validate /\ m.Decoder = "jsonDecoder"
        /\ disp[d].body = "invalid"
        /\ Returned(d)
        /\ disp[d].trace = <<Event("Call", "f"), Event("EncodeError", "some error")>>

\* What a dispatch with this body calls up to the handler under manager mgr
Before(mgr, hd, body) ==
    LET hm == [hd EXCEPT !.decoder = decoder(mgr)]
        dp == DecodePhase(hm, body)
    IN  IF dp.stop THEN dp.events
        ELSE dp.events \o ValidatePhase(hm, mgr.Validate, dp.data).events

\* C19: the dispatcher Handler(f) returned keeps the Decoder, Encoder,
\* ErrorEncoder and Validate the manager had at registration (m0): a request
\* served after the manager was changed is processed as it would have been
\* before the change.
C19_ConfigurationFixed ==
    reg = "ok" =>
        /\ h.decoder = decoder(m0)
        /\ h.encoder = encoder(m0)
        /\ h.errorEncoder = errorEncoder(m0)
        /\ \A d \in DOMAIN disp :
               (HasPayload(d) /\ disp[d].pc # "decode") =>
                   /\ Len(disp[d].trace) >= Len(Before(m0, h, disp[d].body))
                   /\ SubSeq(disp[d].trace, 1,
                             Len(Before(m0, h, disp[d].body)))
                          = Before(m0, h, disp[d].body)
        /\ \A d \in DOMAIN disp :
               NumOf(d, "Valid") > 0 => m0.Validate

====
